---- MODULE Spec2Model ----
(***************************************************************************)
(* Model of the bibliography utility: scripts/build_taxonomies.py (BibTeX  *)
(* entry parser, category walker, build driver) and                        *)
(* scripts/setup_folders.py (folder initializer).                          *)
(*                                                                         *)
(* Text is modelled as sequences of one-character strings so that the      *)
(* regular expressions of parse_bibtex_entry are computed position by      *)
(* position, as the re module computes them.                               *)
(***************************************************************************)
EXTENDS Integers, Sequences, FiniteSets, TLC

VARIABLES
    \* ---- the file system the two scripts work on ----
    root,        \* project_root/'citations': "absent", "dir" or "file"
    citations,   \* entries of the citations directory, by name
    out,         \* files of project_root/'taxonomies', by category name (<name>.json)
    \* ---- outcome of the last script run ----
    last,        \* "none", "env" (operator edited the tree), "setup" or "build"
    repeat,      \* TRUE when the same script also ran immediately before, nothing in between
    status,      \* "ok", or "error" when the run ended with an uncaught exception
    errorAt,     \* build: category being handled when the exception was raised
    stats,       \* build: the dict returned by build_all_taxonomies
    created,     \* setup: counter `created`
    existing,    \* setup: counter `existing`
    \* ---- one call of parse_bibtex_entry ----
    src_header,  \* how the input text was composed: its declaration line
    src_fields,  \* how the input text was composed: its field assignments
    src_sep,     \* how the input text was composed: blanks around "="
    bib_content, \* the argument of parse_bibtex_entry
    entry,       \* the dict it returns
    pc           \* "input" before the call, "parsed" after it

fsvars    == <<root, citations, out, last, repeat, status, errorAt, stats, created, existing>>
parsevars == <<src_header, src_fields, src_sep, bib_content, entry, pc>>
vars      == <<root, citations, out, last, repeat, status, errorAt, stats, created, existing,
               src_header, src_fields, src_sep, bib_content, entry, pc>>

(***************************************************************************)
(* Bounds                                                                  *)
(***************************************************************************)
MaxFields == 2   \* field assignments in a generated entry text
MaxFiles  == 2   \* files present under the citations tree at one time

(***************************************************************************)
(* Characters                                                              *)
(***************************************************************************)
\* \s of the re module and the characters str.strip() removes
WS == {" ", "\t", "\n"}

Digits == {"0", "1", "2", "3", "4", "5", "6", "7", "8", "9"}

\* \w of the re module, for the characters that occur in the model
WordChars == Digits \cup {"_"} \cup
    {"a", "b", "c", "d", "e", "f", "g", "h", "i", "j", "k", "l", "m", "n", "o", "p",
     "q", "r", "s", "t", "u", "v", "w", "x", "y", "z"} \cup
    {"A", "B", "D", "J", "L", "N", "T", "Z"}

\* re.IGNORECASE: both sides are compared in lower case
LowerTab == [c \in {"A", "B", "D", "J", "L", "N", "T", "Z"} |->
               CASE c = "A" -> "a" [] c = "B" -> "b" [] c = "D" -> "d" [] c = "J" -> "j"
                 [] c = "L" -> "l" [] c = "N" -> "n" [] c = "T" -> "t" [] c = "Z" -> "z"]

Lower(c) == IF c \in DOMAIN LowerTab THEN LowerTab[c] ELSE c

LowerSeq(s) == [i \in 1..Len(s) |-> Lower(s[i])]

\* s[i], or the empty string past either end
At(s, i) == IF i >= 1 /\ i <= Len(s) THEN s[i] ELSE ""

(***************************************************************************)
(* str.strip()                                                             *)
(***************************************************************************)
RECURSIVE lstrip(_)
lstrip(s) == IF s # <<>> /\ Head(s) \in WS THEN lstrip(Tail(s)) ELSE s

RECURSIVE rstrip(_)
rstrip(s) == IF s # <<>> /\ s[Len(s)] \in WS THEN rstrip(SubSeq(s, 1, Len(s) - 1)) ELSE s

strip(s) == rstrip(lstrip(s))

(***************************************************************************)
(* The regular expressions of parse_bibtex_entry                           *)
(***************************************************************************)
NoMatch == [matched |-> FALSE, group |-> <<>>]

Matched(g) == [matched |-> TRUE, group |-> g]

\* a literal of the pattern occurs at position i (case-insensitively)
LitAt(s, i, lit) ==
    /\ i + Len(lit) - 1 <= Len(s)
    /\ \A k \in 1..Len(lit) : Lower(s[i + k - 1]) = Lower(lit[k])

\* \s* from position i: the first position that holds no white space
RECURSIVE SkipWs(_, _)
SkipWs(s, i) == IF i <= Len(s) /\ s[i] \in WS THEN SkipWs(s, i + 1) ELSE i

\* \w+ from position i: the first position that holds no word character
RECURSIVE SkipWord(_, _)
SkipWord(s, i) == IF i <= Len(s) /\ s[i] \in WordChars THEN SkipWord(s, i + 1) ELSE i

\* first position >= i that holds character c, 0 when there is none
RECURSIVE FindChar(_, _, _)
FindChar(s, i, c) ==
    IF i > Len(s) THEN 0 ELSE IF s[i] = c THEN i ELSE FindChar(s, i + 1, c)

\* `<name>\s*=\s*` matched at position i: the position after it, 0 when it does not match
AssignAt(s, i, name) ==
    IF ~LitAt(s, i, name) THEN 0
    ELSE LET j == SkipWs(s, i + Len(name))
         IN  IF At(s, j) # "=" THEN 0 ELSE SkipWs(s, j + 1)

\* `<name>\s*=\s*\{([^}]+)\}` matched at position i: the group, or NoMatch
BracedAt(s, i, name) ==
    LET k == AssignAt(s, i, name)
    IN  IF k = 0 \/ At(s, k) # "{" THEN NoMatch
        ELSE LET m == FindChar(s, k + 1, "}")
             IN  IF m = 0 \/ m = k + 1 THEN NoMatch
                 ELSE Matched(SubSeq(s, k + 1, m - 1))

\* `year\s*=\s*\{?(\d{4})\}?` matched at position i: the group, or NoMatch
YearAt(s, i, name) ==
    LET k == AssignAt(s, i, name)
    IN  IF k = 0 THEN NoMatch
        ELSE LET p == IF At(s, k) = "{" THEN k + 1 ELSE k
             IN  IF \A d \in 0..3 : At(s, p + d) \in Digits
                 THEN Matched(SubSeq(s, p, p + 3))
                 ELSE NoMatch

Min(S) == CHOOSE x \in S : \A y \in S : x <= y

\* re.search(r'<name>\s*=\s*\{([^}]+)\}', s, re.IGNORECASE): the leftmost match
re_search_field(name, s) ==
    LET hits == {i \in 1..Len(s) : BracedAt(s, i, name).matched}
    IN  IF hits = {} THEN NoMatch ELSE BracedAt(s, Min(hits), name)

\* re.search(r'year\s*=\s*\{?(\d{4})\}?', s, re.IGNORECASE): the leftmost match
re_search_year(s) ==
    LET name == <<"y","e","a","r">>
        hits == {i \in 1..Len(s) : YearAt(s, i, name).matched}
    IN  IF hits = {} THEN NoMatch ELSE YearAt(s, Min(hits), name)

\* re.match(r'^@(\w+)\{([^,]+),', s): group 2, or NoMatch
re_match_id(s) ==
    IF At(s, 1) # "@" THEN NoMatch
    ELSE LET w == SkipWord(s, 2)
         IN  IF w = 2 \/ At(s, w) # "{" THEN NoMatch
             ELSE LET c == FindChar(s, w + 1, ",")
                  IN  IF c = 0 \/ c = w + 1 THEN NoMatch
                      ELSE Matched(SubSeq(s, w + 1, c - 1))

(***************************************************************************)
(* parse_bibtex_entry                                                      *)
(***************************************************************************)
TitleName     == <<"t","i","t","l","e">>
AuthorName    == <<"a","u","t","h","o","r">>
YearName      == <<"y","e","a","r">>
JournalName   == <<"j","o","u","r","n","a","l">>
BooktitleName == <<"b","o","o","k","t","i","t","l","e">>
AbstractName  == <<"a","b","s","t","r","a","c","t">>

\* "Abstract not available."
AbstractPlaceholder ==
    <<"A","b","s","t","r","a","c","t"," ","n","o","t"," ",
      "a","v","a","i","l","a","b","l","e",".">>

\* if journal_match: ... elif booktitle_match: ... (else the initial '')
Venue(journal_match, booktitle_match) ==
    IF journal_match.matched THEN strip(journal_match.group)
    ELSE IF booktitle_match.matched THEN strip(booktitle_match.group)
    ELSE <<>>

\* if abstract_match: ... else: "Abstract not available."
Abstract(abstract_match) ==
    IF abstract_match.matched THEN strip(abstract_match.group) ELSE AbstractPlaceholder

parse_bibtex_entry(s) ==
    LET match           == re_match_id(s)
        title_match     == re_search_field(TitleName, s)
        author_match    == re_search_field(AuthorName, s)
        year_match      == re_search_year(s)
        journal_match   == re_search_field(JournalName, s)
        booktitle_match == re_search_field(BooktitleName, s)
        abstract_match  == re_search_field(AbstractName, s)
    IN  [id       |-> IF match.matched THEN strip(match.group) ELSE <<>>,
         title    |-> IF title_match.matched THEN strip(title_match.group) ELSE <<>>,
         authors  |-> IF author_match.matched THEN strip(author_match.group) ELSE <<>>,
         year     |-> IF year_match.matched THEN year_match.group ELSE <<>>,
         venue    |-> Venue(journal_match, booktitle_match),
         abstract |-> Abstract(abstract_match),
         bibtex   |-> strip(s)]

\* the value of `entry` before parse_bibtex_entry has run
NoEntry == [id |-> <<>>, title |-> <<>>, authors |-> <<>>, year |-> <<>>,
            venue |-> <<>>, abstract |-> <<>>, bibtex |-> <<>>]

(***************************************************************************)
(* Entry texts given to the parser                                         *)
(***************************************************************************)
\* declaration lines: "@article{foo2020,", "@misc{ k1 ,", and none at all
HeaderPlain  == <<"@","a","r","t","i","c","l","e","{","f","o","o","2","0","2","0",",">>
HeaderSpaced == <<"@","m","i","s","c","{"," ","k","1"," ",",">>
HeaderNone   == <<>>

Headers == {HeaderPlain, HeaderSpaced, HeaderNone}

\* blanks written around "="
Seps == {<<>>, <<" ">>}

\* field values as written, with the value after trimming
TextVals == {[raw |-> <<"A">>,            trimmed |-> <<"A">>],
             [raw |-> <<" ","B","\n">>,   trimmed |-> <<"B">>],
             [raw |-> <<" ">>,            trimmed |-> <<>>],
             [raw |-> <<>>,               trimmed |-> <<>>]}

YearVals == {[raw |-> <<"2","0","2","0">>, trimmed |-> <<"2","0","2","0">>]}

\* the field names an entry is written with: the six the parser looks for, one of
\* them capitalised, and biblatex's shortjournal
ShortjournalName == <<"s","h","o","r","t","j","o","u","r","n","a","l">>

TextFieldNames == {TitleName, <<"T","i","t","l","e">>, AuthorName, JournalName,
                   ShortjournalName, BooktitleName, AbstractName}

\* one field assignment: its name as written, its value, and whether braces enclose it
FieldChoices ==
    {[name |-> n, val |-> v.raw, trimmed |-> v.trimmed, braces |-> TRUE] :
        n \in TextFieldNames, v \in TextVals}
    \cup
    {[name |-> YearName, val |-> v.raw, trimmed |-> v.trimmed, braces |-> b] :
        v \in YearVals, b \in BOOLEAN}
    \cup
    {[name |-> YearName, val |-> <<"9","9">>, trimmed |-> <<"9","9">>, braces |-> TRUE]}

\* sequences of at most n field assignments, no field name twice
RECURSIVE FieldSeqs(_)
FieldSeqs(n) ==
    IF n = 0 THEN {<<>>}
    ELSE LET shorter == FieldSeqs(n - 1)
         IN  shorter \cup
             {Append(fs, f) : fs \in {x \in shorter : Len(x) = n - 1},
                              f \in FieldChoices}

DistinctNames(fs) ==
    \A i, j \in 1..Len(fs) : i # j => LowerSeq(fs[i].name) # LowerSeq(fs[j].name)

\* the text of one field assignment, followed by ",\n"
RenderField(f, sep) ==
    f.name \o sep \o <<"=">> \o sep \o
    (IF f.braces THEN <<"{">> \o f.val \o <<"}">> ELSE f.val) \o <<",", "\n">>

RECURSIVE RenderFields(_, _)
RenderFields(fs, sep) ==
    IF fs = <<>> THEN <<>> ELSE RenderField(Head(fs), sep) \o RenderFields(Tail(fs), sep)

\* the entry text: declaration line, field assignments, closing brace
Render(h, fs, sep) ==
    (IF h = <<>> THEN <<>> ELSE h \o <<"\n">>) \o RenderFields(fs, sep) \o <<"}", "\n">>

(***************************************************************************)
(* The entry texts stored in citation files                                *)
(***************************************************************************)
\* "@article{foo2020,\ntitle = {A},\njournal = { B\n},\n}\n"
TextEntry ==
    Render(HeaderPlain,
           <<[name |-> TitleName, braces |-> TRUE, val |-> <<"A">>, trimmed |-> <<"A">>],
             [name |-> JournalName, braces |-> TRUE,
              val |-> <<" ","B","\n">>, trimmed |-> <<"B">>]>>,
           <<" ">>)

\* a readable file that holds no BibTeX entry at all: "n/a"
TextMalformed == <<"n","/","a">>

FileTexts == {TextEntry, TextMalformed}

(***************************************************************************)
(* Category tables                                                         *)
(***************************************************************************)
\* CATEGORY_INFO of build_taxonomies.py
CATEGORY_INFO ==
    [n \in {"surveys", "data-balancing", "neural-architecture", "feature-enrichment",
            "logits-adjustment", "loss-functions", "foundation-models", "multimodality",
            "fairness", "rare-disease"} |->
       CASE n = "surveys" ->
              [name |-> "Surveys and Bibliometric Analyses",
               description |-> "Literature and systematic reviews of long-tailed learning in healthcare"]
         [] n = "data-balancing" ->
              [name |-> "Data Balancing",
               description |-> "Resampling and synthetic data generation techniques for addressing class imbalance"]
         [] n = "neural-architecture" ->
              [name |-> "Neural Architecture",
               description |-> "Specialized network designs and architectural modifications for imbalanced data"]
         [] n = "feature-enrichment" ->
              [name |-> "Feature Enrichment",
               description |-> "Representation learning to produce more discriminative embeddings for minority classes"]
         [] n = "logits-adjustment" ->
              [name |-> "Logits Adjustment",
               description |-> "Modify classifier outputs to compensate for class frequency disparities"]
         [] n = "loss-functions" ->
              [name |-> "Loss Functions",
               description |-> "Loss function design for class-imbalanced learning"]
         [] n = "foundation-models" ->
              [name |-> "Foundation Models",
               description |-> "Addressing long-tailed distributions through transfer learning and efficient adaptation."]
         [] n = "multimodality" ->
              [name |-> "Multi-modality",
               description |-> "Multi-modal learning approaches addressing missing modalities and class imbalance"]
         [] n = "fairness" ->
              [name |-> "Fairness, Bias, and Health Equity",
               description |-> "Methods addressing demographic imbalances and algorithmic fairness in healthcare"]
         [] n = "rare-disease" ->
              [name |-> "Rare Disease and Epidemiological Modeling",
               description |-> "Specialized approaches for extremely rare conditions and few-shot medical scenarios"]]

\* CATEGORIES of setup_folders.py, in the order the dict is iterated
CATEGORIES ==
    <<"surveys", "data-balancing", "neural-architecture", "feature-enrichment",
      "logits-adjustment", "loss-functions", "foundation-models", "multimodality",
      "fairness", "rare-disease">>

\* a directory name that is in neither table
UnknownName == "misc"

\* names an entry of the citations directory can have
RootNames == DOMAIN CATEGORY_INFO \cup {UnknownName}

\* the entries the operator creates, fills and removes by hand
EnvNames == {"loss-functions", UnknownName}

\* names a file of a category directory can have
FileNames == {"a.bib", "b.bib", "a.txt"}

\* the characters of a name
Chars(n) ==
    CASE n = "surveys" -> <<"s","u","r","v","e","y","s">>
      [] n = "data-balancing" -> <<"d","a","t","a","-","b","a","l","a","n","c","i","n","g">>
      [] n = "neural-architecture" ->
           <<"n","e","u","r","a","l","-","a","r","c","h","i","t","e","c","t","u","r","e">>
      [] n = "feature-enrichment" ->
           <<"f","e","a","t","u","r","e","-","e","n","r","i","c","h","m","e","n","t">>
      [] n = "logits-adjustment" ->
           <<"l","o","g","i","t","s","-","a","d","j","u","s","t","m","e","n","t">>
      [] n = "loss-functions" -> <<"l","o","s","s","-","f","u","n","c","t","i","o","n","s">>
      [] n = "foundation-models" ->
           <<"f","o","u","n","d","a","t","i","o","n","-","m","o","d","e","l","s">>
      [] n = "multimodality" -> <<"m","u","l","t","i","m","o","d","a","l","i","t","y">>
      [] n = "fairness" -> <<"f","a","i","r","n","e","s","s">>
      [] n = "rare-disease" -> <<"r","a","r","e","-","d","i","s","e","a","s","e">>
      [] n = "misc" -> <<"m","i","s","c">>
      [] n = "a.bib" -> <<"a",".","b","i","b">>
      [] n = "b.bib" -> <<"b",".","b","i","b">>
      [] n = "a.txt" -> <<"a",".","t","x","t">>

\* ord() of the characters that occur in names
CharCode ==
    ("-" :> 45) @@ ("." :> 46) @@ ("a" :> 97) @@ ("b" :> 98) @@ ("c" :> 99) @@
    ("d" :> 100) @@ ("e" :> 101) @@ ("f" :> 102) @@ ("g" :> 103) @@ ("h" :> 104) @@
    ("i" :> 105) @@ ("j" :> 106) @@ ("l" :> 108) @@ ("m" :> 109) @@ ("n" :> 110) @@
    ("o" :> 111) @@ ("r" :> 114) @@ ("s" :> 115) @@ ("t" :> 116) @@ ("u" :> 117) @@
    ("v" :> 118) @@ ("x" :> 120) @@ ("y" :> 121)

\* str.__lt__: the order of code points, a proper prefix first
RECURSIVE StrLess(_, _)
StrLess(a, b) ==
    IF b = <<>> THEN FALSE
    ELSE IF a = <<>> THEN TRUE
    ELSE IF CharCode[Head(a)] # CharCode[Head(b)] THEN CharCode[Head(a)] < CharCode[Head(b)]
    ELSE StrLess(Tail(a), Tail(b))

\* Path.__lt__ for two entries of one directory: the order of their names
PathLess(m, n) == StrLess(Chars(m), Chars(n))

RECURSIVE Insert(_, _)
Insert(x, s) ==
    IF s = <<>> THEN <<x>>
    ELSE IF PathLess(x, Head(s)) THEN <<x>> \o s
    ELSE <<Head(s)>> \o Insert(x, Tail(s))

\* the mutant of sorted: the listing is used in the order the directory gave it
Unsorted(s) == s

\* sorted(...) of a list of paths
RECURSIVE sorted(_)
sorted(s) == IF s = <<>> THEN <<>> ELSE Insert(Head(s), sorted(Tail(s)))

(***************************************************************************)
(* The file system                                                         *)
(***************************************************************************)
NoFile == [present |-> FALSE, readable |-> FALSE, text |-> <<>>]

\* a file whose text open()/read() delivers
Readable(t) == [present |-> TRUE, readable |-> TRUE, text |-> t]

\* a file on which open() or read() raises (no permission, not UTF-8, a directory)
Unreadable == [present |-> TRUE, readable |-> FALSE, text |-> <<>>]

NoFiles == [f \in FileNames |-> NoFile]

\* entries of the citations directory: nothing, a directory, a regular file,
\* or a symbolic link whose target does not exist
Absent   == [kind |-> "absent", files |-> NoFiles]
EmptyDir == [kind |-> "dir", files |-> NoFiles]
Regular  == [kind |-> "file", files |-> NoFiles]
Dangling == [kind |-> "dangling", files |-> NoFiles]

NoDoc == [category |-> "", description |-> "", papers |-> <<>>]

\* files of the output directory: none, a JSON document, or anything else
NoOutput    == [kind |-> "none", doc |-> NoDoc]
OtherOutput == [kind |-> "other", doc |-> NoDoc]

\* json.dump(taxonomy, f, indent=2, ensure_ascii=False)
Json(doc) == [kind |-> "json", doc |-> doc]

\* number of files under the citations tree
FileCount(cit) ==
    Cardinality({<<n, f>> \in RootNames \X FileNames : cit[n].files[f].present})

\* Path.is_dir()
is_dir(e) == e.kind = "dir"

\* the mutant of exists: only regular files count as existing
ExistsAsFile(e) == e.kind = "file"

\* Path.exists(): follows symbolic links, so a dangling link does not exist
exists(e) == e.kind \in {"dir", "file"}

\* Path.mkdir() without exist_ok raises FileExistsError when the path is taken
mkdir_raises(e) == e.kind # "absent"

\* the order in which a directory hands out its entries is arbitrary: two
\* orders of the root and of a category directory stand for it
ListingOrders ==
    {[root  |-> CATEGORIES \o <<UnknownName>>,
      files |-> <<"b.bib", "a.txt", "a.bib">>],
     [root  |-> <<UnknownName, "rare-disease", "fairness", "multimodality",
                  "foundation-models", "loss-functions", "logits-adjustment",
                  "feature-enrichment", "neural-architecture", "data-balancing",
                  "surveys">>,
      files |-> <<"a.bib", "b.bib", "a.txt">>]}

\* citations_dir.iterdir(), in the order the directory gives
iterdir(cit, order) ==
    LET Here(n) == cit[n].kind # "absent" IN SelectSeq(order, Here)

\* fnmatch of a file name against '*.bib'
MatchesBib(name) ==
    Len(name) >= 4 /\ SubSeq(name, Len(name) - 3, Len(name)) = <<".","b","i","b">>

\* the mutant of glob_bib: category_folder.glob('*')
GlobAll(dir, order) ==
    LET Here(f) == dir.files[f].present IN SelectSeq(order, Here)

\* category_folder.glob('*.bib'), in the order the directory gives
glob_bib(dir, order) ==
    LET Here(f) == dir.files[f].present /\ MatchesBib(Chars(f)) IN SelectSeq(order, Here)

(***************************************************************************)
(* process_category                                                        *)
(***************************************************************************)
\* category_name.replace('-', ' ').title(), for the one name outside CATEGORY_INFO
TitleCase(category_name) == CASE category_name = "misc" -> "Misc"

\* CATEGORY_INFO.get(category_name, {...})
category_data(category_name) ==
    IF category_name \in DOMAIN CATEGORY_INFO THEN CATEGORY_INFO[category_name]
    ELSE [name |-> TitleCase(category_name), description |-> ""]

\* parse_bibtex_entry on the texts citation files hold, computed once
Parsed == [t \in FileTexts |-> parse_bibtex_entry(t)]

\* the mutant of ReadAll: a text without a key declaration raises as well
RECURSIVE ReadAllStrict(_, _)
ReadAllStrict(dir, bib_files) ==
    IF bib_files = <<>> THEN [raised |-> FALSE, papers |-> <<>>]
    ELSE LET f == dir.files[Head(bib_files)]
         IN  IF ~f.readable \/ Parsed[f.text].id = <<>>
             THEN [raised |-> TRUE, papers |-> <<>>]
             ELSE LET rest == ReadAllStrict(dir, Tail(bib_files))
                  IN  IF rest.raised THEN rest
                      ELSE [raised |-> FALSE, papers |-> <<Parsed[f.text]>> \o rest.papers]

\* for bib_file in bib_files: open, read, parse, append; open()/read() may raise
RECURSIVE ReadAll(_, _)
ReadAll(dir, bib_files) ==
    IF bib_files = <<>> THEN [raised |-> FALSE, papers |-> <<>>]
    ELSE LET f == dir.files[Head(bib_files)]
         IN  IF ~f.readable THEN [raised |-> TRUE, papers |-> <<>>]
             ELSE LET rest == ReadAll(dir, Tail(bib_files))
                  IN  IF rest.raised THEN rest
                      ELSE [raised |-> FALSE, papers |-> <<Parsed[f.text]>> \o rest.papers]

\* process_category(category_folder): the document, or raised when a file cannot be read
process_category(category_name, dir, order) ==
    LET bib_files == sorted(glob_bib(dir, order))
        r         == ReadAll(dir, bib_files)
    IN  [raised |-> r.raised,
         doc    |-> [category    |-> category_data(category_name).name,
                     description |-> category_data(category_name).description,
                     papers      |-> r.papers]]

(***************************************************************************)
(* build_all_taxonomies                                                    *)
(***************************************************************************)
EmptyStats == [n \in {} |-> 0]

\* the mutant of Recognized: every directory is taken for a category
AnyDirectory(name, e) == is_dir(e)

\* category_folder.is_dir() and category_folder.name in CATEGORY_INFO
Recognized(name, e) == is_dir(e) /\ name \in DOMAIN CATEGORY_INFO

\* the mutant of WriteJson: the file is opened for appending
AppendJson(old, taxonomy) ==
    IF old.kind = "json"
    THEN Json([taxonomy EXCEPT !.papers = old.doc.papers \o taxonomy.papers])
    ELSE Json(taxonomy)

\* with open(output_file, 'w') as f: json.dump(taxonomy, f, ...)
WriteJson(old, taxonomy) == Json(taxonomy)

\* the mutant of MkOutputDir: the output directory is emptied first
RecreateOutputDir(o) == [n \in DOMAIN o |-> NoOutput]

\* output_dir.mkdir(parents=True, exist_ok=True): what is there stays
MkOutputDir(o) == o

\* for category_folder in sorted(citations_dir.iterdir()): ...
RECURSIVE BuildLoop(_, _, _, _, _)
BuildLoop(folders, cit, o, st, order) ==
    IF folders = <<>> THEN [out |-> o, stats |-> st, status |-> "ok", errorAt |-> ""]
    ELSE LET name == Head(folders)
         IN  IF Recognized(name, cit[name])
             THEN LET r == process_category(name, cit[name], order)
                  IN  IF r.raised
                      THEN [out |-> o, stats |-> EmptyStats, status |-> "error",
                            errorAt |-> name]
                      ELSE BuildLoop(Tail(folders), cit,
                                     [o EXCEPT ![name] = WriteJson(@, r.doc)],
                                     st @@ (name :> Len(r.doc.papers)), order)
             ELSE BuildLoop(Tail(folders), cit, o, st, order)

\* citations_dir.mkdir(parents=True, exist_ok=True): raises when the path is a file
MkCitationsDir(rt) == IF rt = "file" THEN rt ELSE "dir"

\* build_all_taxonomies(citations_dir, output_dir); nothing is returned when it raises
build_all_taxonomies(rt, cit, o, root_order, file_order) ==
    IF rt = "file"
    THEN [out |-> o, stats |-> EmptyStats, status |-> "error", errorAt |-> ""]
    ELSE BuildLoop(sorted(iterdir(cit, root_order)), cit, MkOutputDir(o),
                   EmptyStats, file_order)

(***************************************************************************)
(* setup_folders.main                                                      *)
(***************************************************************************)
\* for folder_name, info in CATEGORIES.items(): ...
RECURSIVE SetupLoop(_, _, _, _)
SetupLoop(names, cit, cr, ex) ==
    IF names = <<>>
    THEN [citations |-> cit, created |-> cr, existing |-> ex, status |-> "ok"]
    ELSE LET folder_name == Head(names)
         IN  IF exists(cit[folder_name])
             THEN SetupLoop(Tail(names), cit, cr, ex + 1)
             ELSE IF mkdir_raises(cit[folder_name])
             THEN [citations |-> cit, created |-> cr, existing |-> ex, status |-> "error"]
             ELSE SetupLoop(Tail(names), [cit EXCEPT ![folder_name] = EmptyDir],
                            cr + 1, ex)

\* main(): citations_dir.mkdir(exist_ok=True), then the loop
setup_main(rt, cit) ==
    IF rt = "file"
    THEN [citations |-> cit, created |-> 0, existing |-> 0, status |-> "error"]
    ELSE SetupLoop(CATEGORIES, cit, 0, 0)

(***************************************************************************)
(* Actions                                                                 *)
(***************************************************************************)
\* what an edit of the tree by hand leaves of the last run's outcome
EnvStep ==
    /\ last' = "env"
    /\ repeat' = FALSE
    /\ status' = "ok"
    /\ errorAt' = ""
    /\ stats' = EmptyStats
    /\ created' = 0
    /\ existing' = 0
    /\ UNCHANGED parsevars

\* the operator creates a directory, a regular file or a dangling link in citations/
PutEntry(n, e) ==
    /\ root # "file"
    /\ citations[n].kind = "absent"
    /\ root' = "dir"
    /\ citations' = [citations EXCEPT ![n] = e]
    /\ UNCHANGED out
    /\ EnvStep

\* the operator removes an entry of citations/ with all it holds
RemoveEntry(n) ==
    /\ citations[n].kind # "absent"
    /\ citations' = [citations EXCEPT ![n] = Absent]
    /\ UNCHANGED <<root, out>>
    /\ EnvStep

\* the operator saves or replaces a file in a directory of citations/
SaveFile(n, f, c) ==
    /\ is_dir(citations[n])
    /\ citations[n].files[f] # c
    /\ citations[n].files[f].present \/ FileCount(citations) < MaxFiles
    /\ citations' = [citations EXCEPT ![n].files[f] = c]
    /\ UNCHANGED <<root, out>>
    /\ EnvStep

\* the operator deletes a file
DeleteFile(n, f) ==
    /\ citations[n].files[f].present
    /\ citations' = [citations EXCEPT ![n].files[f] = NoFile]
    /\ UNCHANGED <<root, out>>
    /\ EnvStep

\* something other than a build writes <n>.json in the output directory
EditOutput(n) ==
    /\ out[n] # OtherOutput
    /\ out' = [out EXCEPT ![n] = OtherOutput]
    /\ UNCHANGED <<root, citations>>
    /\ EnvStep

\* one run of scripts/setup_folders.py
SetupFolders ==
    /\ \E r \in {setup_main(root, citations)} :
          /\ citations' = r.citations
          /\ created' = r.created
          /\ existing' = r.existing
          /\ status' = r.status
    /\ root' = MkCitationsDir(root)
    /\ last' = "setup"
    /\ repeat' = (last = "setup")
    /\ errorAt' = ""
    /\ stats' = EmptyStats
    /\ UNCHANGED out
    /\ UNCHANGED parsevars

\* one run of scripts/build_taxonomies.py
BuildTaxonomies(order) ==
    /\ \E r \in {build_all_taxonomies(root, citations, out, order.root, order.files)} :
          /\ out' = r.out
          /\ stats' = r.stats
          /\ status' = r.status
          /\ errorAt' = r.errorAt
    /\ root' = MkCitationsDir(root)
    /\ last' = "build"
    /\ repeat' = (last = "build")
    /\ created' = 0
    /\ existing' = 0
    /\ UNCHANGED citations
    /\ UNCHANGED parsevars

\* one call of parse_bibtex_entry
Parse ==
    /\ pc = "input"
    /\ entry' = parse_bibtex_entry(bib_content)
    /\ pc' = "parsed"
    /\ UNCHANGED <<src_header, src_fields, src_sep, bib_content>>
    /\ UNCHANGED fsvars

(***************************************************************************)
(* Specifications                                                          *)
(***************************************************************************)
\* what the operator can save under a file name
FileContents(f) ==
    IF MatchesBib(Chars(f)) THEN {Readable(t) : t \in FileTexts} \cup {Unreadable}
    ELSE {Readable(TextMalformed)}

NoRun ==
    /\ out = [n \in RootNames |-> NoOutput]
    /\ last = "none"
    /\ repeat = FALSE
    /\ status = "ok"
    /\ errorAt = ""
    /\ stats = EmptyStats
    /\ created = 0
    /\ existing = 0

ParseIdle ==
    /\ src_header = HeaderNone
    /\ src_fields = <<>>
    /\ src_sep = <<>>
    /\ bib_content = Render(HeaderNone, <<>>, <<>>)
    /\ entry = NoEntry
    /\ pc = "idle"

\* the citations directory of a fresh checkout, and after the folders were set up
Fresh == [n \in RootNames |-> Absent]

SetUp == [n \in RootNames |-> IF n \in DOMAIN CATEGORY_INFO THEN EmptyDir ELSE Absent]

\* the build script, run again and again, and the operator editing the tree between runs
Init ==
    /\ \/ root \in {"absent", "file"} /\ citations = Fresh
       \/ root = "dir" /\ citations = SetUp
    /\ NoRun
    /\ ParseIdle

Next ==
    \/ \E n \in EnvNames, e \in {EmptyDir, Regular} : PutEntry(n, e)
    \/ \E n \in EnvNames : RemoveEntry(n)
    \/ \E n \in EnvNames, f \in FileNames : \E c \in FileContents(f) : SaveFile(n, f, c)
    \/ \E n \in EnvNames, f \in FileNames : DeleteFile(n, f)
    \/ \E n \in EnvNames : EditOutput(n)
    \/ \E order \in ListingOrders : BuildTaxonomies(order)

Spec == Init /\ [][Next]_vars

\* the entries the operator creates and removes between runs of the folder initializer
SetupNames == {"surveys", "loss-functions", "fairness"}

\* the folder initializer, run again and again, and the operator editing between runs
SetupInit ==
    /\ root \in {"absent", "dir", "file"}
    /\ citations = Fresh
    /\ NoRun
    /\ ParseIdle

SetupNext ==
    \/ \E n \in SetupNames, e \in {EmptyDir, Regular, Dangling} : PutEntry(n, e)
    \/ \E n \in SetupNames : RemoveEntry(n)
    \/ SetupFolders

SetupSpec == SetupInit /\ [][SetupNext]_vars

\* parse_bibtex_entry applied to every entry text of at most MaxFields fields
ParseInit ==
    /\ root = "absent"
    /\ citations = Fresh
    /\ NoRun
    /\ src_header \in Headers
    /\ src_sep \in Seps
    /\ src_fields \in {fs \in FieldSeqs(MaxFields) : DistinctNames(fs)}
    /\ bib_content = Render(src_header, src_fields, src_sep)
    /\ entry = NoEntry
    /\ pc = "input"

ParseNext == Parse

ParseSpec == ParseInit /\ [][ParseNext]_vars

(***************************************************************************)
(* What the properties below speak about                                   *)
(***************************************************************************)
\* the names of the model in ascending lexicographic order
Lexicographic ==
    <<"a.bib", "a.txt", "b.bib", "data-balancing", "fairness", "feature-enrichment",
      "foundation-models", "logits-adjustment", "loss-functions", "misc",
      "multimodality", "neural-architecture", "rare-disease", "surveys">>

Position(n) == CHOOSE i \in DOMAIN Lexicographic : Lexicographic[i] = n

Before(m, n) == Position(m) < Position(n)

\* the category directories a build finds: directories named after a known category
PresentRecognized == {c \in DOMAIN CATEGORY_INFO : citations[c].kind = "dir"}

\* the files of a directory, and those among them named *.bib
FilesIn(dir) == {f \in FileNames : dir.files[f].present}

BibFilesIn(dir) == FilesIn(dir) \cap {"a.bib", "b.bib"}

\* the i-th name of a set of names in ascending order
Nth(S, i) == CHOOSE f \in S : Cardinality({g \in S : Before(g, f)}) = i - 1

\* the parse of each file of S, in ascending order of the file names
PapersOf(dir, S) == [i \in 1..Cardinality(S) |-> Parsed[dir.files[Nth(S, i)].text]]

\* the document of category c built from the files its directory holds now
DocumentOf(c) ==
    [category    |-> CATEGORY_INFO[c].name,
     description |-> CATEGORY_INFO[c].description,
     papers      |-> PapersOf(citations[c], BibFilesIn(citations[c]))]

\* the categories for which the last build got a document from process_category
Handled ==
    CASE status = "ok" -> PresentRecognized
      [] errorAt = ""  -> {}
      [] OTHER         -> {c \in PresentRecognized : Before(c, errorAt)}

\* the field assignments of the composed entry text with a given (lower-case) name
FieldsNamed(name) ==
    {i \in 1..Len(src_fields) : LowerSeq(src_fields[i].name) = name}

HasField(name) == FieldsNamed(name) # {}

\* ... and those among them with at least one character between the braces
HasValue(name) == \E i \in FieldsNamed(name) : src_fields[i].val # <<>>

TrimmedValue(name) == src_fields[CHOOSE i \in FieldsNamed(name) : TRUE].trimmed

(***************************************************************************)
(* Properties                                                              *)
(***************************************************************************)
\* C1 (as stated): the document process_category returns for a category directory
\* with N files has exactly N papers.
C1_OnePaperPerFile ==
    last = "build" =>
        \A c \in Handled :
            Len(out[c].doc.papers) = Cardinality(FilesIn(citations[c]))

\* C1 (amended): every document process_category returns has exactly one paper per
\* file named *.bib of the category directory, the i-th paper being the parse of the
\* i-th such file name in ascending lexicographic order; other files add no paper.
C1_OnePaperPerBibFile ==
    last = "build" =>
        \A c \in Handled :
            /\ out[c].kind = "json"
            /\ Len(out[c].doc.papers) = Cardinality(BibFilesIn(citations[c]))
            /\ out[c].doc.papers = PapersOf(citations[c], BibFilesIn(citations[c]))

\* C1 witness: a build has written a category whose two .bib files hold different texts
C1_Witness ==
    /\ last = "build"
    /\ status = "ok"
    /\ citations["loss-functions"].kind = "dir"
    /\ citations["loss-functions"].files["a.bib"] = Readable(TextMalformed)
    /\ citations["loss-functions"].files["b.bib"] = Readable(TextEntry)
    /\ Len(out["loss-functions"].doc.papers) = 2

\* C2 (as stated): a citation file that cannot be read does not abort the build: every
\* recognized category still gets its JSON file, holding the parse of each file that
\* can be read.
C2_UnreadableFileIsolated ==
    (last = "build" /\ root = "dir") =>
        \A c \in PresentRecognized :
            LET ok == {f \in BibFilesIn(citations[c]) : citations[c].files[f].readable}
            IN  /\ out[c].kind = "json"
                /\ out[c].doc.papers = PapersOf(citations[c], ok)

\* the record of a text in which no pattern of the parser matches
DefaultRecord(t) ==
    [id |-> <<>>, title |-> <<>>, authors |-> <<>>, year |-> <<>>, venue |-> <<>>,
     abstract |-> AbstractPlaceholder, bibtex |-> t]

HasUnreadable(c) ==
    \E f \in BibFilesIn(citations[c]) : ~citations[c].files[f].readable

\* C2 (amended): a malformed citation file that can be read does not abort the build:
\* it gives a record of defaults, and the build fails exactly when the citations root
\* is no directory or a .bib file of a recognized category cannot be read; then the
\* exception ends the run.
C2_MalformedFileIsolated ==
    last = "build" =>
        /\ status = "error" <=>
              (root = "file" \/ \E c \in PresentRecognized : HasUnreadable(c))
        /\ status = "ok" =>
              \A c \in PresentRecognized :
                 /\ out[c].kind = "json"
                 /\ Len(out[c].doc.papers) = Cardinality(BibFilesIn(citations[c]))
                 /\ \A i \in 1..Len(out[c].doc.papers) :
                       LET f == citations[c].files[Nth(BibFilesIn(citations[c]), i)]
                       IN  f.text = TextMalformed =>
                              out[c].doc.papers[i] = DefaultRecord(TextMalformed)

\* C2 witness: a build completed on a category that holds a malformed file and an entry
C2_Witness ==
    /\ last = "build"
    /\ status = "ok"
    /\ citations["loss-functions"].files["a.bib"] = Readable(TextEntry)
    /\ citations["loss-functions"].files["b.bib"] = Readable(TextMalformed)
    /\ Len(out["loss-functions"].doc.papers) = 2
    /\ out["loss-functions"].doc.papers[2] = DefaultRecord(TextMalformed)

\* C3 (as stated): whatever the citations root holds, the second of two runs of the
\* folder initializer raises no error and reports created = 0 and existing = 10.
C3_SecondRunNeverFails ==
    (last = "setup" /\ repeat) => (status = "ok" /\ created = 0 /\ existing = 10)

\* C3 (amended): a run of the folder initializer that follows a run that completed
\* raises no error, changes nothing on disk and reports created = 0 and
\* existing = 10; in every run that completes, created + existing = 10.
C3_RerunAfterSuccess ==
    [][last' = "setup" =>
          /\ status' = "ok" => created' + existing' = 10
          /\ (last = "setup" /\ status = "ok") =>
                /\ status' = "ok"
                /\ created' = 0
                /\ existing' = 10
                /\ root' = root
                /\ citations' = citations
                /\ out' = out]_vars

\* C3 witness: a second run found all ten names, one of them a regular file
C3_Witness ==
    /\ last = "setup"
    /\ repeat
    /\ status = "ok"
    /\ created = 0
    /\ existing = 10
    /\ citations["surveys"].kind = "file"

\* C4: a build writes no output for an entry of the citations directory that is not a
\* directory named after a known category, fails only for an unreadable citation file
\* of a recognized category (or a citations root that is no directory), and returns
\* stats whose keys are exactly the recognized category directories present, each
\* with the number of its papers.
C4_UnknownEntriesSkipped ==
    [][last' = "build" =>
          /\ \A n \in RootNames \ PresentRecognized : out'[n] = out[n]
          /\ status' = "ok" =>
                /\ DOMAIN stats' = PresentRecognized
                /\ \A c \in PresentRecognized :
                      stats'[c] = Cardinality(BibFilesIn(citations[c]))
          /\ status' = "error" =>
                \/ root = "file"
                \/ /\ errorAt' \in PresentRecognized
                   /\ \E f \in BibFilesIn(citations[errorAt']) :
                         ~citations[errorAt'].files[f].readable]_vars

\* C4 witness: a build completed with an unknown directory that holds a .bib file
C4_Witness ==
    /\ last = "build"
    /\ status = "ok"
    /\ citations[UnknownName].kind = "dir"
    /\ citations[UnknownName].files["a.bib"].present
    /\ out[UnknownName].kind = "none"
    /\ UnknownName \notin DOMAIN stats
    /\ DOMAIN stats # {}

\* C5 (as stated): the venue is the trimmed journal value if a journal field (with a
\* value) is present, otherwise the trimmed booktitle value if a booktitle field is
\* present, otherwise the empty string.
C5_VenueFromJournalField ==
    pc = "parsed" =>
        entry.venue = IF HasValue(JournalName) THEN TrimmedValue(JournalName)
                      ELSE IF HasValue(BooktitleName) THEN TrimmedValue(BooktitleName)
                      ELSE <<>>

\* C6 (as stated): when the entry has a title field title = {...} with a value, the
\* parsed title is the trimmed text between the braces of that field, whatever other
\* fields the entry has and in whatever order.
C6_TitleFromTitleField ==
    (pc = "parsed" /\ HasValue(TitleName)) => entry.title = TrimmedValue(TitleName)

\* C7 (as stated): id, title, authors, year and venue are empty whenever the key
\* declaration, title, author, year, journal and booktitle field is missing, and
\* abstract is "Abstract not available." whenever the abstract field is missing.
C7_MissingFieldsDefault ==
    pc = "parsed" =>
        /\ src_header = HeaderNone => entry.id = <<>>
        /\ ~HasField(TitleName) => entry.title = <<>>
        /\ ~HasField(AuthorName) => entry.authors = <<>>
        /\ ~HasField(YearName) => entry.year = <<>>
        /\ (~HasField(JournalName) /\ ~HasField(BooktitleName)) => entry.venue = <<>>
        /\ ~HasField(AbstractName) => entry.abstract = AbstractPlaceholder

\* C8: after a build that completes, the JSON file of every recognized category is
\* the document built from the files its directory holds now, whatever the file held
\* before; a further build with the inputs unchanged leaves every output file as it is.
C8_OutputFromCurrentInputs ==
    /\ [](last = "build" /\ status = "ok" =>
            \A c \in PresentRecognized : out[c] = Json(DocumentOf(c)))
    /\ [][(last = "build" /\ status = "ok" /\ last' = "build") => out' = out]_vars

\* C8 witness: a second build in a row completed and left a document with a paper
C8_Witness ==
    /\ last = "build"
    /\ repeat
    /\ status = "ok"
    /\ out["loss-functions"].kind = "json"
    /\ Len(out["loss-functions"].doc.papers) = 1
    /\ out[UnknownName].kind = "other"

\* C9: when a build ends with an error raised while the citation files of category c
\* are read, every recognized category before c in ascending order of name has its
\* new document, every recognized category after c has the output file it had
\* before the run, and so has c itself.
C9_NoRollback ==
    [][(last' = "build" /\ status' = "error" /\ errorAt' # "") =>
          /\ errorAt' \in PresentRecognized
          /\ \A c \in PresentRecognized :
                /\ Before(c, errorAt') => out'[c] = Json(DocumentOf(c))
                /\ Before(errorAt', c) => out'[c] = out[c]
                /\ c = errorAt' => out'[c] = out[c]]_vars

\* C9 witness: a build failed at loss-functions; an earlier category has its file, a
\* later one has none, and loss-functions.json is still the file no build wrote
C9_Witness ==
    /\ last = "build"
    /\ status = "error"
    /\ errorAt = "loss-functions"
    /\ out["data-balancing"].kind = "json"
    /\ out["surveys"].kind = "none"
    /\ out["loss-functions"].kind = "other"

\* C10: a build changes no entry of the citations directory and no file of the output
\* directory other than <category>.json of the recognized category directories present.
C10_BuildFrame ==
    [][last' = "build" =>
          /\ citations' = citations
          /\ \A n \in RootNames : out'[n] # out[n] => n \in PresentRecognized]_vars

\* C10 witness: after a build, the JSON file of a category whose directory was removed
\* is still there, next to a file no build wrote
C10_Witness ==
    /\ last = "build"
    /\ status = "ok"
    /\ citations["loss-functions"].kind = "absent"
    /\ out["loss-functions"].kind = "json"
    /\ out[UnknownName].kind = "other"

====
